---- MODULE Spec2Model ----
(***************************************************************************)
(* A model of the MuyGPyS local-kriging regression engines:                *)
(*   MuyGPyS/gp/muygps.py               (MuyGPS, the single-model engine)  *)
(*   MuyGPyS/gp/multivariate_muygps.py  (MultivariateMuyGPS)               *)
(*                                                                         *)
(* Floating point numbers are modelled by exact rationals <<n, d>> in      *)
(* lowest terms, and numpy.linalg.solve by exact elimination, which raises *)
(* LinAlgError exactly when the matrix is singular.  Arrays are            *)
(* sequences indexed from 1, so the code's column i is column i + 1 here.  *)
(* Python's None is the string "None".                                     *)
(***************************************************************************)
EXTENDS Integers, Sequences, FiniteSets, TLC

VARIABLES
    models,     \* MultivariateMuyGPS.models: one [theta, eps] per MuyGPS
    sigma_sq,   \* MultivariateMuyGPS.sigma_sq: [val, trained]
    op,         \* the call in progress or just completed ("idle": none)
    args,       \* the arguments of that call
    result,     \* what that call returned or raised
    gp          \* a stand-alone engine: a MuyGPS (muygps.py) or a BenchmarkGP

vars == <<models, sigma_sq, op, args, result, gp>>

-----------------------------------------------------------------------------
(* Bounds of the model.                                                    *)

MaxModels == 2
MaxResp == 2
MaxEngines == 2

-----------------------------------------------------------------------------
(* Exact rational arithmetic standing for the code's floats.               *)

Abs(x) == IF x < 0 THEN -x ELSE x

\* v, evaluated once: TLC keeps a function expression unevaluated until it is
\* compared, and otherwise evaluates it again at every application
Eager(v) == LET w == v IN IF w = w THEN w ELSE w

RECURSIVE Gcd(_, _)
Gcd(a, b) == IF b = 0 THEN a ELSE Gcd(b, a % b)

Frac(n, d) ==
    LET g == Gcd(Abs(n), Abs(d))
        s == IF d < 0 THEN -1 ELSE 1
    IN  <<(s * n) \div g, (s * d) \div g>>

\* the operations cancel common factors first, to keep the integers small
FAdd(x, y) ==
    LET g == Gcd(x[2], y[2])
    IN  Frac(x[1] * (y[2] \div g) + y[1] * (x[2] \div g),
             (x[2] \div g) * y[2])
FNeg(x) == <<-x[1], x[2]>>
FSub(x, y) == FAdd(x, FNeg(y))
FMul(x, y) ==
    LET g == Gcd(Abs(x[1]), y[2])
        h == Gcd(Abs(y[1]), x[2])
    IN  <<(x[1] \div g) * (y[1] \div h), (x[2] \div h) * (y[2] \div g)>>
FInv(x) == IF x[1] < 0 THEN <<-x[2], -x[1]>> ELSE <<x[2], x[1]>>
FDiv(x, y) == FMul(x, FInv(y))
FInt(n) == <<n, 1>>
FZero == FInt(0)
FOne == FInt(1)

RECURSIVE FSum(_)
FSum(s) == IF s = <<>> THEN FZero ELSE FAdd(Head(s), FSum(Tail(s)))

\* u @ v for two vectors of the same length
Dot(u, v) == FSum([j \in 1..Len(u) |-> FMul(u[j], v[j])])

\* numpy.linalg.solve factors the matrix by elimination with row
\* exchanges and raises LinAlgError when it meets a column without a
\* pivot.  In exact arithmetic the choice of the pivot does not change the
\* solution; here it is the first row with a nonzero entry.  Elimination
\* also keeps the integers small where the determinant itself would not
\* fit in TLC's integers (a noise of 1e-5 on a matrix of order 3).

\* the matrix A with the column b appended
Augment(A, b) == Eager([r \in 1..Len(A) |-> Append(A[r], b[r])])

\* the first row from c down with a nonzero entry in column c, or 0
PivotRow(M, c) ==
    LET S == { r \in c..Len(M) : M[r][c] # FZero }
    IN  IF S = {} THEN 0 ELSE CHOOSE r \in S : \A q \in S : r <= q

RowScale(row, f) == [j \in 1..Len(row) |-> FMul(row[j], f)]
RowSub(row, other, f) ==
    [j \in 1..Len(row) |-> FSub(row[j], FMul(other[j], f))]

\* Gauss-Jordan elimination of M from column c on
RECURSIVE Eliminate(_, _)
Eliminate(M, c) ==
    IF c > Len(M)
    THEN [singular |-> FALSE, M |-> M]
    ELSE LET p == PivotRow(M, c)
         IN  IF p = 0
             THEN [singular |-> TRUE, M |-> <<>>]
             ELSE LET swapped == [M EXCEPT ![c] = M[p], ![p] = M[c]]
                      prow == RowScale(swapped[c], FInv(swapped[c][c]))
                  IN  Eliminate(
                        Eager([r \in 1..Len(M) |->
                                IF r = c THEN prow
                                ELSE RowSub(swapped[r], prow, swapped[r][c])]),
                        c + 1)

\* numpy.linalg.solve(A, b) for one system with a vector right-hand side;
\* the caller checks Singular(A) first, as numpy raises LinAlgError there.
Singular(A) == Eliminate(A, 1).singular
LinalgSolve(A, b) ==
    LET M == Eliminate(Augment(A, b), 1).M
    IN  Eager([r \in 1..Len(A) |-> M[r][Len(A) + 1]])

\* K + eps * np.eye(nn_count) for one batch element
Perturb(Kb, eps) ==
    Eager([r \in 1..Len(Kb) |->
            [c \in 1..Len(Kb) |->
                IF r = c THEN FAdd(Kb[r][c], eps) ELSE Kb[r][c]]])

\* mm.zeros((rows, cols))
Zeros(rows, cols) == Eager([b \in 1..rows |-> [c \in 1..cols |-> FZero]])

\* mm.assign(mat, col, slice(None), i): column i of mat becomes col
Assign(mat, col, i) ==
    Eager([b \in 1..Len(mat) |-> [mat[b] EXCEPT ![i] = col[b]]])

-----------------------------------------------------------------------------
(* The data the calls are made on: one-dimensional features, the l2        *)
(* metric, and a table of targets with MaxResp columns.                    *)

TrainX == <<0, 1, 3>>
TestX == <<2, 4>>

Targets(rc) ==
    Eager([t \in 1..Len(TrainX) |-> [r \in 1..rc |-> FInt(t * r + 1)]])

\* the batches a caller asks for: each element is a test index and its row
\* of nn_indices.  Neighbourhoods of 2 and of 3 training points, with and
\* without a repeated neighbour (which makes K singular), in batches of 1
\* and of 2.
Batches ==
    { << <<1, <<1, 2>>>> >>,
      << <<2, <<3, 1, 2>>>> >>,
      << <<1, <<2, 2, 3>>>> >>,
      << <<1, <<1, 2>>>>, <<2, <<2, 3>>>> >>,
      << <<2, <<3, 1, 2>>>>, <<1, <<2, 2, 3>>>> >> }

Indices(batch) == [b \in 1..Len(batch) |-> batch[b][1]]
NnIndices(batch) == [b \in 1..Len(batch) |-> batch[b][2]]

Metric(x, y) == Abs(x - y)

\* the kernel functor of one model applied to a distance: a correlation
\* kernel (1 at distance 0) with the length scale theta
KernelVal(theta, d) == Frac(theta, theta + d)

\* model.kernel(dists) on a tensor of any rank
Kernel2(theta, dists) ==
    Eager([b \in 1..Len(dists) |->
            [j \in 1..Len(dists[b]) |-> KernelVal(theta, dists[b][j])]])
Kernel3(theta, dists) ==
    Eager([b \in 1..Len(dists) |-> Kernel2(theta, dists[b])])

\* _make_regress_tensors(metric, indices, nn_indices, test, train, targets)
make_regress_tensors(indices, nn_indices, test, train, targets) ==
    Eager(
    [crosswise_dists |->
        [b \in 1..Len(indices) |->
            [j \in 1..Len(nn_indices[b]) |->
                Metric(test[indices[b]], train[nn_indices[b][j]])]],
     pairwise_dists |->
        [b \in 1..Len(indices) |->
            [j \in 1..Len(nn_indices[b]) |->
                [l \in 1..Len(nn_indices[b]) |->
                    Metric(train[nn_indices[b][j]], train[nn_indices[b][l]])]]],
     batch_nn_targets |->
        [b \in 1..Len(indices) |->
            [j \in 1..Len(nn_indices[b]) |-> targets[nn_indices[b][j]]]]])

\* the numpy implementation of the same collaborator
make_regress_tensors_n(indices, nn_indices, test, train, targets) ==
    make_regress_tensors(indices, nn_indices, test, train, targets)

-----------------------------------------------------------------------------
(* The engines.                                                            *)

ModelArgs ==
    { [theta |-> 1, eps |-> FZero],
      [theta |-> 2, eps |-> FOne] }

Engines == UNION { [1..n -> ModelArgs] : n \in 1..MaxModels }

\* the vectors the sigma^2 estimator may leave in a SigmaSq of n values:
\* a different scale, none of them 1, for each response dimension
TrainedVals(n) == { [i \in 1..n |-> Frac(i + 2, 2)] }

\* SigmaSq(response_count): ones, untrained
SigmaSqInit(n) == [val |-> [i \in 1..n |-> FOne], trained |-> FALSE]

VarianceModes == {"None", "diagonal", "full"}

-----------------------------------------------------------------------------
(* MuyGPS: the single-model engine (muygps.py).                            *)

\* column r of one batch element's (nn_count, response_count) targets
TargetCol(tb, r) == Eager([j \in 1..Len(tb) |-> tb[j][r]])

\* a _compute_solve that solves every batch element against the system of
\* the first one
compute_solve_first_system(eps, K, Kcross, batch_targets) ==
    LET batch_size == Len(batch_targets)
        response_count == Len(batch_targets[1][1])
        A == Eager([b \in 1..batch_size |-> Perturb(K[b], eps)])
    IN  IF \E b \in 1..batch_size : Singular(A[b])
        THEN [err |-> "LinAlgError", val |-> <<>>]
        ELSE [err |-> "none",
              val |-> Eager([b \in 1..batch_size |->
                        [r \in 1..response_count |->
                            Dot(Kcross[b],
                                LinalgSolve(A[1],
                                    TargetCol(batch_targets[b], r)))]])]

\* MuyGPS._compute_solve: one batched numpy.linalg.solve over all batch
\* elements, which raises if any one system is singular.
compute_solve(eps, K, Kcross, batch_targets) ==
    LET batch_size == Len(batch_targets)
        response_count == Len(batch_targets[1][1])
        A == Eager([b \in 1..batch_size |-> Perturb(K[b], eps)])
    IN  IF \E b \in 1..batch_size : Singular(A[b])
        THEN [err |-> "LinAlgError", val |-> <<>>]
        ELSE [err |-> "none",
              val |-> Eager([b \in 1..batch_size |->
                        [r \in 1..response_count |->
                            Dot(Kcross[b],
                                LinalgSolve(A[b],
                                    TargetCol(batch_targets[b], r)))]])]

\* a _compute_diagonal_variance that leaves the noise out of the system
compute_diagonal_variance_no_noise(eps, K, Kcross) ==
    LET batch_size == Len(Kcross)
    IN  IF \E b \in 1..batch_size : Singular(K[b])
        THEN [err |-> "LinAlgError", val |-> <<>>]
        ELSE [err |-> "none",
              val |-> Eager([b \in 1..batch_size |->
                        FSub(FOne,
                             Dot(Kcross[b], LinalgSolve(K[b], Kcross[b])))])]

\* a _compute_diagonal_variance that adds the quadratic form
compute_diagonal_variance_added(eps, K, Kcross) ==
    LET batch_size == Len(Kcross)
        A == Eager([b \in 1..batch_size |-> Perturb(K[b], eps)])
    IN  IF \E b \in 1..batch_size : Singular(A[b])
        THEN [err |-> "LinAlgError", val |-> <<>>]
        ELSE [err |-> "none",
              val |-> Eager([b \in 1..batch_size |->
                        FAdd(FOne,
                             Dot(Kcross[b], LinalgSolve(A[b], Kcross[b])))])]

\* MuyGPS._compute_diagonal_variance: one solve per batch element
compute_diagonal_variance(eps, K, Kcross) ==
    LET batch_size == Len(Kcross)
        A == Eager([b \in 1..batch_size |-> Perturb(K[b], eps)])
    IN  IF \E b \in 1..batch_size : Singular(A[b])
        THEN [err |-> "LinAlgError", val |-> <<>>]
        ELSE [err |-> "none",
              val |-> Eager([b \in 1..batch_size |->
                        FSub(FOne,
                             Dot(Kcross[b], LinalgSolve(A[b], Kcross[b])))])]

\* What a call returned or raised.  kind is "responses", "pair", "triple",
\* "quad" (the shape of the returned value) or "error"; solves and
\* kernel_evals count the calls of the solve routines and of the kernel
\* functor made before the call ended; writes[c] is the set of loop
\* iterations that assigned column c of an output matrix.
Returned(kind, responses, variance, counts) ==
    [kind |-> kind, err |-> "none", responses |-> responses,
     variance |-> variance, crosswise_dists |-> <<>>, pairwise_dists |-> <<>>,
     kernel_evals |-> counts.kernel_evals, solves |-> counts.solves,
     writes |-> counts.writes]

Raised(err, counts) ==
    [kind |-> "error", err |-> err, responses |-> <<>>,
     variance |-> <<>>, crosswise_dists |-> <<>>, pairwise_dists |-> <<>>,
     kernel_evals |-> counts.kernel_evals, solves |-> counts.solves,
     writes |-> counts.writes]

Counts(kernel_evals, solves) ==
    [kernel_evals |-> kernel_evals, solves |-> solves, writes |-> <<>>]

\* MuyGPS.regress(K, Kcross, batch_targets, variance_mode)
MuyGPS_regress(model, K, Kcross, batch_targets, variance_mode) ==
    LET responses == compute_solve(model.eps, K, Kcross, batch_targets)
    IN  IF responses.err # "none"
        THEN Raised(responses.err, Counts(0, 1))
        ELSE IF variance_mode = "None"
        THEN Returned("responses", responses.val, <<>>, Counts(0, 1))
        ELSE IF variance_mode = "diagonal"
        THEN LET diagonal_variance ==
                    compute_diagonal_variance(model.eps, K, Kcross)
             IN  IF diagonal_variance.err # "none"
                 THEN Raised(diagonal_variance.err, Counts(0, 2))
                 ELSE Returned("pair", responses.val, diagonal_variance.val,
                               Counts(0, 1 + Len(Kcross)))
        ELSE Raised("NotImplementedError", Counts(0, 1))

-----------------------------------------------------------------------------
(* MultivariateMuyGPS (multivariate_muygps.py).                            *)

\* batch_nn_targets[:, :, i].reshape(batch_count, nn_count, 1)
TargetSlice(batch_nn_targets, i) ==
    Eager([b \in 1..Len(batch_nn_targets) |->
            [j \in 1..Len(batch_nn_targets[b]) |->
                <<batch_nn_targets[b][j][i]>>]])

\* x.reshape(batch_count) of a (batch_count, 1) matrix
Flatten(x) == Eager([b \in 1..Len(x) |-> x[b][1]])

\* v * ss, elementwise
Scale(v, ss) == Eager([b \in 1..Len(v) |-> FMul(v[b], ss)])

\* The state of one _regress call before its loop: the zero matrices of
\* lines 316-320 and nothing done yet.  a is the record of the arguments.
regress_alloc(a) ==
    LET batch_count == Len(a.batch_nn_targets)
        response_count == Len(a.batch_nn_targets[1][1])
    IN  [err |-> "none",
         responses |-> Zeros(batch_count, response_count),
         diagonal_variance |->
            IF a.variance_mode = "diagonal"
            THEN Zeros(batch_count, response_count) ELSE <<>>,
         kernel_evals |-> 0,
         solves |-> 0,
         writes |-> [c \in 1..response_count |-> {}],
         done |-> {}]

\* a raise inside the loop: the outputs are lost, the counters stay
Abort(acc, err, i, kernel_evals, solves) ==
    [acc EXCEPT !.err = err,
                !.kernel_evals = @ + kernel_evals,
                !.solves = @ + solves,
                !.done = @ \cup {i}]

\* One iteration of the loop of _regress (lines 325-349): model is the
\* engine of the iteration, i its position (the column it slices from the
\* targets), col the column it assigns in the outputs, ss the scale of
\* its variances.
regress_iteration(acc, i, a, model, col, ss) ==
    LET batch_count == Len(a.batch_nn_targets)
        response_count == Len(a.batch_nn_targets[1][1])
        K == Kernel3(model.theta, a.pairwise_dists)
        Kcross == Kernel2(model.theta, a.crosswise_dists)
    IN  IF i > response_count
        THEN Abort(acc, "IndexError", i, 2, 0)
        ELSE
        LET solve == compute_solve(model.eps, K, Kcross,
                                   TargetSlice(a.batch_nn_targets, i))
        IN  IF solve.err # "none"
            THEN Abort(acc, solve.err, i, 2, 1)
            ELSE
            LET responses == Assign(acc.responses, Flatten(solve.val), col)
                written == [acc.writes EXCEPT ![col] = @ \cup {i}]
            IN  IF a.variance_mode # "diagonal"
                THEN [acc EXCEPT !.responses = responses,
                                 !.kernel_evals = @ + 2,
                                 !.solves = @ + 1,
                                 !.writes = written,
                                 !.done = @ \cup {i}]
                ELSE
                LET dv == compute_diagonal_variance(model.eps, K, Kcross)
                IN  IF dv.err # "none"
                    THEN Abort(acc, dv.err, i, 2, 2)
                    ELSE [acc EXCEPT
                            !.responses = responses,
                            !.diagonal_variance =
                                Assign(@, Scale(dv.val, ss), col),
                            !.kernel_evals = @ + 2,
                            !.solves = @ + 1 + batch_count,
                            !.writes = written,
                            !.done = @ \cup {i}]

\* the iteration scaling the variances whatever apply_sigma_sq says
regress_body_always_scaled(acc, i, a) ==
    regress_iteration(acc, i, a, a.models[i], i, a.sigma_sq.val[i])

\* the iteration taking the scale of the first response dimension
regress_body_first_scale(acc, i, a) ==
    regress_iteration(acc, i, a, a.models[i], i,
                      IF a.apply_sigma_sq THEN a.sigma_sq.val[1] ELSE FOne)

\* the body of `for i, model in enumerate(models)` (lines 325-349)
regress_body(acc, i, a) ==
    regress_iteration(acc, i, a, a.models[i], i,
                      IF a.apply_sigma_sq THEN a.sigma_sq.val[i] ELSE FOne)

\* for i, model in enumerate(models): the iterations in order, ended by the
\* first one that raises
RECURSIVE regress_loop(_, _, _)
regress_loop(acc, i, a) ==
    IF i > Len(a.models) \/ acc.err # "none"
    THEN acc
    ELSE regress_loop(regress_body(acc, i, a), i + 1, a)

\* lines 357-359, or the exception leaving the call
regress_return(acc, a) ==
    IF acc.err # "none"
    THEN Raised(acc.err, acc)
    ELSE IF a.variance_mode = "diagonal"
    THEN Returned("pair", acc.responses, acc.diagonal_variance, acc)
    ELSE Returned("responses", acc.responses, <<>>, acc)

\* the check of variance_mode of lines 317-324
mode_supported(variance_mode) == variance_mode \in {"None", "diagonal"}

\* _regress checking variance_mode where the single-model regress does:
\* after the solves
regress_impl_late_check(a) ==
    LET acc == regress_loop(regress_alloc(a), 1, a)
    IN  IF acc.err # "none"
        THEN Raised(acc.err, acc)
        ELSE IF ~mode_supported(a.variance_mode)
        THEN Raised("NotImplementedError", acc)
        ELSE regress_return(acc, a)

\* MultivariateMuyGPS._regress(models, pairwise_dists, crosswise_dists,
\*     batch_nn_targets, sigma_sq, variance_mode, apply_sigma_sq)
regress_impl(a) ==
    IF ~mode_supported(a.variance_mode)
    THEN Raised("NotImplementedError",
                [regress_alloc(a) EXCEPT !.diagonal_variance = <<>>])
    ELSE regress_return(regress_loop(regress_alloc(a), 1, a), a)

\* the arguments regress hands to _regress (lines 295-303)
regress_args(ms, ss, pairwise_dists, crosswise_dists, batch_nn_targets, variance_mode, apply_sigma_sq) ==
    [models |-> ms,
     pairwise_dists |-> pairwise_dists,
     crosswise_dists |-> crosswise_dists,
     batch_nn_targets |-> batch_nn_targets,
     sigma_sq |-> ss,
     variance_mode |-> variance_mode,
     apply_sigma_sq |-> (apply_sigma_sq /\ ss.trained)]

\* MultivariateMuyGPS.regress
regress(ms, ss, pairwise_dists, crosswise_dists, batch_nn_targets, variance_mode, apply_sigma_sq) ==
    regress_impl(regress_args(ms, ss, pairwise_dists, crosswise_dists,
                              batch_nn_targets, variance_mode, apply_sigma_sq))

\* the choice of tensor_fn of lines 175-179
tensor_fn(mpi_mode, indices_by_rank, indices, nn_indices, test, train, targets) ==
    IF mpi_mode /\ indices_by_rank
    THEN make_regress_tensors_n(indices, nn_indices, test, train, targets)
    ELSE make_regress_tensors(indices, nn_indices, test, train, targets)

\* what regress_from_indices returns, given the tensors t it built and
\* what regress returned (lines 196-203)
from_indices_return(c, t, responses) ==
    IF responses.kind = "error"
    THEN responses
    ELSE IF c.return_distances = FALSE
    THEN responses
    ELSE IF c.variance_mode = "None"
    THEN [responses EXCEPT !.kind = "triple",
                           !.crosswise_dists = t.crosswise_dists,
                           !.pairwise_dists = t.pairwise_dists]
    ELSE [responses EXCEPT !.kind = "quad",
                           !.crosswise_dists = t.crosswise_dists,
                           !.pairwise_dists = t.pairwise_dists]

\* regress_from_indices leaving apply_sigma_sq of regress at its default
regress_from_indices_default_apply(ms, ss, mpi_mode, c) ==
    LET t == tensor_fn(mpi_mode, c.indices_by_rank, c.indices, c.nn_indices,
                       c.test, c.train, c.targets)
    IN  from_indices_return(c, t,
            regress(ms, ss, t.pairwise_dists, t.crosswise_dists,
                    t.batch_nn_targets, c.variance_mode, TRUE))

\* regress_from_indices returning the distance tensors whatever
\* return_distances is
regress_from_indices_always_distances(ms, ss, mpi_mode, c) ==
    LET t == tensor_fn(mpi_mode, c.indices_by_rank, c.indices, c.nn_indices,
                       c.test, c.train, c.targets)
    IN  from_indices_return([c EXCEPT !.return_distances = TRUE], t,
            regress(ms, ss, t.pairwise_dists, t.crosswise_dists,
                    t.batch_nn_targets, c.variance_mode, c.apply_sigma_sq))

\* MultivariateMuyGPS.regress_from_indices; c is the record of its
\* arguments and mpi_mode what _is_mpi_mode() returns
regress_from_indices(ms, ss, mpi_mode, c) ==
    LET t == tensor_fn(mpi_mode, c.indices_by_rank, c.indices, c.nn_indices,
                       c.test, c.train, c.targets)
        responses == regress(ms, ss, t.pairwise_dists, t.crosswise_dists,
                             t.batch_nn_targets, c.variance_mode,
                             c.apply_sigma_sq)
    IN  from_indices_return(c, t, responses)

-----------------------------------------------------------------------------
(* Fast regression (multivariate_muygps.py, lines 361-562).  A tensor of   *)
(* shape (n, nn_count, response_count) is a sequence of n matrices.        *)
(* mm.assign is the implementation _collect_implementation selects for     *)
(* the backend in use: it returns the array with the slice replaced, and   *)
(* either has updated its first argument in place or has left it alone.    *)
(* in_place says which; the two loops below discard what it returns.       *)

\* mm.zeros((n, nn_count, response_count))
Zeros3(n, nn_count, response_count) ==
    Eager([t \in 1..n |-> Zeros(nn_count, response_count)])

\* what mm.assign(tensor, mat, slice(None), slice(None), i) returns
Assign3(tensor, mat, i) ==
    Eager([t \in 1..Len(tensor) |->
            [j \in 1..Len(tensor[t]) |->
                [tensor[t][j] EXCEPT ![i] = mat[t][j]]]])

\* the array bound to the first argument after the statement
\* mm.assign(tensor, mat, slice(None), slice(None), i), the value it
\* returns being dropped
assign_discarded(in_place, tensor, mat, i) ==
    IF in_place THEN Assign3(tensor, mat, i) ELSE tensor

\* _make_fast_regress_tensors(metric, nn_indices, train, targets): the
\* pairwise distances and the targets of every training point's
\* neighbourhood
make_fast_regress_tensors(nn_indices, train, targets) ==
    Eager(
    [pairwise_dists_fast |->
        [t \in 1..Len(nn_indices) |->
            [j \in 1..Len(nn_indices[t]) |->
                [l \in 1..Len(nn_indices[t]) |->
                    Metric(train[nn_indices[t][j]], train[nn_indices[t][l]])]]],
     train_nn_targets_fast |->
        [t \in 1..Len(nn_indices) |->
            [j \in 1..Len(nn_indices[t]) |-> targets[nn_indices[t][j]]]]])

\* _muygps_fast_regress_precompute(_homoscedastic_perturb(K, eps), col):
\* the solution of (K[t] + eps * I) x = col[t] for every training point t
fast_regress_precompute(eps, K, col) ==
    LET A == Eager([t \in 1..Len(K) |-> Perturb(K[t], eps)])
    IN  IF \E t \in 1..Len(K) : Singular(A[t])
        THEN [err |-> "LinAlgError", val |-> <<>>]
        ELSE [err |-> "none",
              val |-> Eager([t \in 1..Len(K) |-> LinalgSolve(A[t], col[t])])]

\* train_nn_targets_fast[:, :, i]
Slice3(tensor, i) ==
    Eager([t \in 1..Len(tensor) |->
            [j \in 1..Len(tensor[t]) |-> tensor[t][j][i]]])

\* the loop of _build_fast_regress_coeffs from model i on (lines 421-431)
RECURSIVE build_loop(_, _, _, _, _, _)
build_loop(ms, in_place, i, coeffs_tensor, pairwise_dists_fast, train_nn_targets_fast) ==
    IF i > Len(ms)
    THEN [err |-> "none", coeffs |-> coeffs_tensor]
    ELSE LET K == Kernel3(ms[i].theta, pairwise_dists_fast)
             block == fast_regress_precompute(ms[i].eps, K,
                            Slice3(train_nn_targets_fast, i))
         IN  IF block.err # "none"
             THEN [err |-> block.err, coeffs |-> <<>>]
             ELSE build_loop(ms, in_place, i + 1,
                      assign_discarded(in_place, coeffs_tensor, block.val, i),
                      pairwise_dists_fast, train_nn_targets_fast)

\* MultivariateMuyGPS._build_fast_regress_coeffs (lines 412-433)
build_fast_regress_coeffs_impl(ms, in_place, pairwise_dists_fast, train_nn_targets_fast) ==
    LET train_count == Len(train_nn_targets_fast)
        nn_count == Len(train_nn_targets_fast[1])
        response_count == Len(train_nn_targets_fast[1][1])
    IN  build_loop(ms, in_place, 1,
                   Zeros3(train_count, nn_count, response_count),
                   pairwise_dists_fast, train_nn_targets_fast)

\* MultivariateMuyGPS.build_fast_regress_coeffs (lines 361-410)
build_fast_regress_coeffs(ms, in_place, train, nn_indices, targets) ==
    LET t == make_fast_regress_tensors(nn_indices, train, targets)
    IN  build_fast_regress_coeffs_impl(ms, in_place, t.pairwise_dists_fast,
                                       t.train_nn_targets_fast)

\* crosswise_distances(test, train, indices, nn_indices)
crosswise_distances(test, train, indices, nn_indices) ==
    Eager([b \in 1..Len(indices) |->
            [j \in 1..Len(nn_indices[b]) |->
                Metric(test[indices[b]], train[nn_indices[b][j]])]])

\* _mmuygps_fast_regress_solve(Kcross, coeffs_tensor): the contraction
\* "ijk,ijk->ik" of the two tensors
fast_regress_solve(Kcross, coeffs_tensor) ==
    Eager([b \in 1..Len(Kcross) |->
            [d \in 1..Len(Kcross[b][1]) |->
                FSum([j \in 1..Len(Kcross[b]) |->
                        FMul(Kcross[b][j][d], coeffs_tensor[b][j][d])])]])

\* the loop of _fast_regress from model i on (lines 553-561)
RECURSIVE fast_regress_loop(_, _, _, _, _)
fast_regress_loop(ms, in_place, i, Kcross, crosswise_dists) ==
    IF i > Len(ms)
    THEN Kcross
    ELSE fast_regress_loop(ms, in_place, i + 1,
            assign_discarded(in_place, Kcross,
                             Kernel2(ms[i].theta, crosswise_dists), i),
            crosswise_dists)

\* MultivariateMuyGPS._fast_regress through fast_regress (lines 505-562)
fast_regress(ms, in_place, crosswise_dists, coeffs_tensor) ==
    LET Kcross == fast_regress_loop(ms, in_place, 1,
                      Zeros3(Len(coeffs_tensor), Len(coeffs_tensor[1]),
                             Len(coeffs_tensor[1][1])),
                      crosswise_dists)
    IN  Returned("responses", fast_regress_solve(Kcross, coeffs_tensor),
                 <<>>, Counts(Len(ms), 0))

\* MultivariateMuyGPS.fast_regress_from_indices (lines 435-503)
fast_regress_from_indices(ms, in_place, c) ==
    LET crosswise_dists ==
            crosswise_distances(c.test, c.train, c.indices, c.nn_indices)
    IN  fast_regress(ms, in_place, crosswise_dists,
            Eager([b \in 1..Len(c.closest_index) |->
                    c.coeffs_tensor[c.closest_index[b]]]))

-----------------------------------------------------------------------------
(* The hyperparameters of a stand-alone MuyGPS (muygps.py, __init__).      *)

\* a hyperparameter object: its value and its bounds, "fixed" or a pair of
\* numbers (here "free", the pair itself playing no part)
Hyper(val, bounds) == [val |-> val, bounds |-> bounds]

Bounds == {"fixed", "free"}

\* the names of the hyperparameters of the kernel (those of Matern)
KernelParams == {"nu", "length_scale"}

\* MuyGPS(kern, eps=..., sigma_sq=[...], **kwargs): the kernel's
\* hyperparameters with the bounds the caller gave, eps with the bounds the
\* caller gave ("fixed" if none), one scale parameter per entry of
\* sigma_sq, each with the default bounds "fixed" and the default value 1
MuyGPSInit(kbounds, eps_bounds, n) ==
    [cls |-> "MuyGPS",
     hyperparameters |-> [p \in KernelParams |-> Hyper(1, kbounds[p])],
     eps |-> Hyper(FZero, eps_bounds),
     sigma_sq |-> [i \in 1..n |-> Hyper(FOne, "fixed")]]

\* BenchmarkGP(kernel, eps): the kernel's hyperparameters, the noise object
\* the caller passed, and SigmaSq()
BenchmarkGPInit(kbounds, eps_bounds) ==
    [cls |-> "BenchmarkGP",
     hyperparameters |-> [p \in KernelParams |-> Hyper(1, kbounds[p])],
     eps |-> Hyper(FZero, eps_bounds),
     sigma_sq |-> SigmaSqInit(1)]

\* the engines a caller may have constructed
MuyGPSs ==
    { MuyGPSInit(kb, eb, n) :
        kb \in [KernelParams -> Bounds], eb \in Bounds, n \in 1..MaxResp }

BenchmarkGPs ==
    { BenchmarkGPInit(kb, eb) :
        kb \in [KernelParams -> Bounds], eb \in Bounds }

\* Hyperparameter.get_bounds() and Hyperparameter.fixed()
get_bounds(h) == h.bounds
fixed(h) == h.bounds = "fixed"

\* the objects a mapping from the names in names refers to
Deref(g, names) ==
    [p \in names |-> IF p = "eps" THEN g.eps ELSE g.hyperparameters[p]]

\* MuyGPS.get_optim_params (muygps.py, lines 54-62)
MuyGPS_get_optim_params(g) ==
    LET optim_params ==
            { p \in KernelParams : get_bounds(g.hyperparameters[p]) # "fixed" }
    IN  Deref(g, IF get_bounds(g.eps) # "fixed"
                 THEN optim_params \cup {"eps"} ELSE optim_params)

\* BenchmarkGP.get_optim_params (_test/gp.py, lines 187-193)
BenchmarkGP_get_optim_params(g) ==
    LET optim_params == { p \in KernelParams : ~fixed(g.hyperparameters[p]) }
    IN  Deref(g, IF ~fixed(g.eps)
                 THEN optim_params \cup {"eps"} ELSE optim_params)

\* a fixed() that looks at the kernel's hyperparameters only
BenchmarkGP_fixed_kernel_only(g) ==
    \A p \in KernelParams : fixed(g.hyperparameters[p])

\* BenchmarkGP.fixed (_test/gp.py, lines 153-168)
BenchmarkGP_fixed(g) ==
    /\ \A p \in KernelParams : fixed(g.hyperparameters[p])
    /\ fixed(g.eps)

\* get_optim_params adding eps whatever its bounds
get_optim_params_always_eps(g) ==
    Deref(g, { p \in KernelParams : ~fixed(g.hyperparameters[p]) }
             \cup {"eps"})

\* get_optim_params returning every hyperparameter, fixed or not
get_optim_params_all(g) == Deref(g, KernelParams \cup {"eps"})

\* get_optim_params returning the kernel's hyperparameters only
get_optim_params_kernel_only(g) ==
    Deref(g, { p \in KernelParams : ~fixed(g.hyperparameters[p]) })

get_optim_params(g) ==
    IF g.cls = "MuyGPS"
    THEN MuyGPS_get_optim_params(g) ELSE BenchmarkGP_get_optim_params(g)

\* Hyperparameter._set_val(val): the value is replaced; the bounds are not
\* enforced
set_val(h, val) == [h EXCEPT !.val = val]

\* Y_0 @ np.linalg.solve(K[j] + eps * I, Y_0) of _get_sigma_sq, for the
\* neighbourhood j and the target column target_col
sigma_sq_term(eps, K, target_col, nn_indices, j) ==
    LET Y_0 == Eager([l \in 1..Len(nn_indices[j]) |->
                        target_col[nn_indices[j][l]]])
    IN  Dot(Y_0, LinalgSolve(Perturb(K[j], eps), Y_0))

\* sum(self._get_sigma_sq(K, target_col, nn_indices)): the sum of the terms
\* the generator yields, or the LinAlgError of its first singular system
get_sigma_sq(eps, K, target_col, nn_indices) ==
    LET batch_size == Len(nn_indices)
    IN  IF \E j \in 1..batch_size : Singular(Perturb(K[j], eps))
        THEN [err |-> "LinAlgError", val |-> FZero]
        ELSE [err |-> "none",
              val |-> FSum([j \in 1..batch_size |->
                        sigma_sq_term(eps, K, target_col, nn_indices, j)])]

\* the scale divided by the size of the neighbourhoods only
sigma_sq_value_per_batch(sum, old, nn_count, batch_size) ==
    FDiv(sum, FInt(nn_count))

\* the scale added to the value stored before
sigma_sq_value_accumulated(sum, old, nn_count, batch_size) ==
    FAdd(old, FDiv(sum, FInt(nn_count * batch_size)))

\* the scale the iteration i of sigma_sq_optim stores (lines 205-208); old
\* is the value stored before, which the code does not read
sigma_sq_value(sum, old, nn_count, batch_size) ==
    FDiv(sum, FInt(nn_count * batch_size))

\* for i in range(response_count) of sigma_sq_optim, from iteration i on:
\* the engine after the loop, and the exception that ended it, if any.
\* self.sigma_sq[i] is evaluated before the argument of _set_val.
RECURSIVE sigma_sq_optim_loop(_, _, _, _, _)
sigma_sq_optim_loop(g, i, K, nn_indices, targets) ==
    LET batch_size == Len(nn_indices)
        nn_count == Len(nn_indices[1])
        response_count == Len(targets[1])
        target_col == Eager([t \in 1..Len(targets) |-> targets[t][i]])
    IN  IF i > response_count
        THEN [gp |-> g, err |-> "none"]
        ELSE IF i > Len(g.sigma_sq)
        THEN [gp |-> g, err |-> "IndexError"]
        ELSE LET sum == get_sigma_sq(g.eps.val, K, target_col, nn_indices)
             IN  IF sum.err # "none"
                 THEN [gp |-> g, err |-> sum.err]
                 ELSE sigma_sq_optim_loop(
                        [g EXCEPT !.sigma_sq[i] =
                            set_val(@, sigma_sq_value(sum.val, @.val,
                                                      nn_count, batch_size))],
                        i + 1, K, nn_indices, targets)

\* MuyGPS.sigma_sq_optim(K, nn_indices, targets)
sigma_sq_optim(g, K, nn_indices, targets) ==
    sigma_sq_optim_loop(g, 1, K, nn_indices, targets)

-----------------------------------------------------------------------------
(* The state machine: an engine is constructed, then called.  Each call    *)
(* is one step; Return drops the call's frame before the next call.        *)

Init ==
    /\ models \in Engines
    /\ sigma_sq = SigmaSqInit(Len(models))
    /\ op = "idle"
    /\ args = <<>>
    /\ result = <<>>
    /\ gp = MuyGPSInit([p \in KernelParams |-> "fixed"], "fixed", 1)

\* the tensors a caller holds for one batch and response_count rc
TensorsOf(batch, rc) ==
    make_regress_tensors(Indices(batch), NnIndices(batch), TestX, TrainX,
                         Targets(rc))

\* a caller runs the single-model regress of model m on kernel tensors
CallMuyGPSRegress ==
    /\ op = "idle"
    /\ \E m \in 1..Len(models), batch \in Batches, rc \in 1..MaxResp,
          variance_mode \in VarianceModes :
        /\ LET t == TensorsOf(batch, rc)
               K == Kernel3(models[m].theta, t.pairwise_dists)
               Kcross == Kernel2(models[m].theta, t.crosswise_dists)
           IN  /\ args' = [m |-> m, K |-> K, Kcross |-> Kcross,
                           batch_targets |-> t.batch_nn_targets,
                           variance_mode |-> variance_mode]
               /\ result' = MuyGPS_regress(models[m], K, Kcross,
                                           t.batch_nn_targets, variance_mode)
    /\ op' = "MuyGPS.regress"
    /\ UNCHANGED <<models, sigma_sq, gp>>

\* a regress that marks the scale vector trained
CallRegress_marks_trained ==
    /\ op = "idle"
    /\ \E batch \in Batches, rc \in 1..MaxResp,
          variance_mode \in VarianceModes, apply_sigma_sq \in BOOLEAN :
        /\ LET t == TensorsOf(batch, rc)
           IN  /\ args' = [pairwise_dists |-> t.pairwise_dists,
                           crosswise_dists |-> t.crosswise_dists,
                           batch_nn_targets |-> t.batch_nn_targets,
                           variance_mode |-> variance_mode,
                           apply_sigma_sq |-> apply_sigma_sq]
               /\ result' = regress(models, sigma_sq, t.pairwise_dists,
                                    t.crosswise_dists, t.batch_nn_targets,
                                    variance_mode, apply_sigma_sq)
    /\ op' = "regress"
    /\ sigma_sq' = [sigma_sq EXCEPT !.trained = TRUE]
    /\ UNCHANGED <<models, gp>>

\* a caller runs the multivariate regress on distance tensors
CallRegress ==
    /\ op = "idle"
    /\ \E batch \in Batches, rc \in 1..MaxResp,
          variance_mode \in VarianceModes, apply_sigma_sq \in BOOLEAN :
        /\ LET t == TensorsOf(batch, rc)
           IN  /\ args' = [pairwise_dists |-> t.pairwise_dists,
                           crosswise_dists |-> t.crosswise_dists,
                           batch_nn_targets |-> t.batch_nn_targets,
                           variance_mode |-> variance_mode,
                           apply_sigma_sq |-> apply_sigma_sq]
               /\ result' = regress(models, sigma_sq, t.pairwise_dists,
                                    t.crosswise_dists, t.batch_nn_targets,
                                    variance_mode, apply_sigma_sq)
    /\ op' = "regress"
    /\ UNCHANGED <<models, sigma_sq, gp>>

\* a caller runs regress_from_indices on indices into the data
CallRegressFromIndices ==
    /\ op = "idle"
    /\ \E batch \in Batches, rc \in 1..MaxResp,
          variance_mode \in VarianceModes, apply_sigma_sq \in BOOLEAN,
          return_distances \in BOOLEAN,
          mpi \in {<<FALSE, FALSE>>, <<TRUE, TRUE>>} :
        /\ LET c == [indices |-> Indices(batch),
                     nn_indices |-> NnIndices(batch),
                     test |-> TestX,
                     train |-> TrainX,
                     targets |-> Targets(rc),
                     variance_mode |-> variance_mode,
                     apply_sigma_sq |-> apply_sigma_sq,
                     return_distances |-> return_distances,
                     indices_by_rank |-> mpi[2],
                     mpi_mode |-> mpi[1]]
           IN  /\ args' = c
               /\ result' = regress_from_indices(models, sigma_sq, mpi[1], c)
    /\ op' = "regress_from_indices"
    /\ UNCHANGED <<models, sigma_sq, gp>>

\* the closed-form sigma^2 estimator has run on the engine: the scale
\* vector holds its values and is trained
TrainSigmaSq ==
    /\ op = "idle"
    /\ \E val \in TrainedVals(Len(models)) :
        sigma_sq' = [val |-> val, trained |-> TRUE]
    /\ UNCHANGED <<models, op, args, result, gp>>

\* the call is over: its arguments and its result are the caller's
Return ==
    /\ op \notin {"idle", "_regress"}
    /\ op' = "idle"
    /\ args' = <<>>
    /\ result' = <<>>
    /\ UNCHANGED <<models, sigma_sq, gp>>

-----------------------------------------------------------------------------
(* The same regress call taken one loop iteration at a time.  StepDim(i)   *)
(* runs the loop body for any model i not yet processed: the code's loop   *)
(* is the schedule that always takes the least such i.                     *)

\* lines 315-324: unpack the shape, allocate the outputs, check the mode
StepBegin ==
    /\ op = "idle"
    /\ \E batch \in Batches, rc \in 1..MaxResp,
          variance_mode \in VarianceModes, apply_sigma_sq \in BOOLEAN :
        /\ LET t == TensorsOf(batch, rc)
               a == regress_args(models, sigma_sq, t.pairwise_dists,
                                 t.crosswise_dists, t.batch_nn_targets,
                                 variance_mode, apply_sigma_sq)
           IN  /\ args' = a
               /\ IF mode_supported(variance_mode)
                  THEN /\ op' = "_regress"
                       /\ result' = regress_alloc(a)
                  ELSE /\ op' = "regress_done"
                       /\ result' = regress_impl(a)
    /\ UNCHANGED <<models, sigma_sq, gp>>

\* lines 325-349 for the model at position i
StepDim(i) ==
    /\ op = "_regress"
    /\ i \in (1..Len(args.models)) \ result.done
    /\ LET acc == regress_body(result, i, args)
       IN  IF acc.err # "none"
           THEN /\ op' = "regress_done"
                /\ result' = regress_return(acc, args)
           ELSE /\ op' = op
                /\ result' = acc
    /\ UNCHANGED <<models, sigma_sq, args, gp>>

\* lines 357-359, once every model has been processed
StepEnd ==
    /\ op = "_regress"
    /\ result.done = 1..Len(args.models)
    /\ op' = "regress_done"
    /\ result' = regress_return(result, args)
    /\ UNCHANGED <<models, sigma_sq, args, gp>>

NextSteps ==
    \/ StepBegin
    \/ \E i \in 1..MaxModels : StepDim(i)
    \/ StepEnd
    \/ TrainSigmaSq
    \/ Return

SpecSteps == Init /\ [][NextSteps]_vars

-----------------------------------------------------------------------------
(* The stand-alone engine: the estimator of sigma^2, the query of the      *)
(* hyperparameters to optimize, and the sets of hyperparameters.           *)

InitGP ==
    /\ models = <<[theta |-> 1, eps |-> FZero]>>
    /\ sigma_sq = SigmaSqInit(1)
    /\ op = "idle"
    /\ args = <<>>
    /\ result = <<>>
    /\ \/ gp \in MuyGPSs
       \/ gp \in BenchmarkGPs

\* the batches the estimator is called on: two neighbourhoods that can be
\* solved, and one that can followed by one with a repeated neighbour
SigmaBatches ==
    { << <<1, <<1, 2>>>>, <<2, <<2, 3>>>> >>,
      << <<2, <<3, 1, 2>>>>, <<1, <<2, 2, 3>>>> >> }

\* what a call that returns no value leaves: nothing, or an exception
Completed(err) ==
    [kind |-> IF err = "none" THEN "none" ELSE "error", err |-> err]

\* muygps.sigma_sq_optim(K, nn_indices, targets), K being the kernel
\* tensor the caller computed for the neighbourhoods
CallSigmaSqOptim ==
    /\ op = "idle"
    /\ gp.cls = "MuyGPS"
    /\ \E batch \in SigmaBatches, rc \in 1..MaxResp :
        LET t == TensorsOf(batch, rc)
            K == Kernel3(1, t.pairwise_dists)
            r == sigma_sq_optim(gp, K, NnIndices(batch), Targets(rc))
        IN  /\ args' = [K |-> K, nn_indices |-> NnIndices(batch),
                        targets |-> Targets(rc)]
            /\ gp' = r.gp
            /\ result' = Completed(r.err)
    /\ op' = "sigma_sq_optim"
    /\ UNCHANGED <<models, sigma_sq>>

\* gp.get_optim_params(): the mapping returned refers to the engine's own
\* hyperparameter objects
CallGetOptimParams ==
    /\ op = "idle"
    /\ op' = "get_optim_params"
    /\ args' = <<>>
    /\ result' = [kind |-> "mapping", err |-> "none",
                  params |-> get_optim_params(gp)]
    /\ UNCHANGED <<models, sigma_sq, gp>>

\* the values an optimizer may give a hyperparameter
HyperVals(p) == IF p = "eps" THEN {FZero, FOne} ELSE {1, 2}

\* an optimizer sets the value of a hyperparameter of the mapping it holds
\* (Hyperparameter._set_val on the reference)
OptimizerSetVal ==
    /\ op = "get_optim_params"
    /\ \E p \in DOMAIN result.params : \E v \in HyperVals(p) :
        /\ v # result.params[p].val
        /\ gp' = IF p = "eps"
                 THEN [gp EXCEPT !.eps = set_val(@, v)]
                 ELSE [gp EXCEPT !.hyperparameters[p] = set_val(@, v)]
        /\ result' = [result EXCEPT !.params = Deref(gp', DOMAIN result.params)]
    /\ UNCHANGED <<models, sigma_sq, op, args>>

\* BenchmarkGP.set_eps(**eps): the explicit reset of the value and of the
\* bounds of eps (_test/gp.py, lines 127-137)
SetEps ==
    /\ op = "idle"
    /\ gp.cls = "BenchmarkGP"
    /\ \E v \in HyperVals("eps"), b \in Bounds :
        /\ args' = [val |-> v, bounds |-> b]
        /\ gp' = [gp EXCEPT !.eps = Hyper(v, b)]
    /\ op' = "set_eps"
    /\ result' = Completed("none")
    /\ UNCHANGED <<models, sigma_sq>>

\* SigmaSq._set(val): the values are replaced
SigmaSq_set(ss, val) == [ss EXCEPT !.val = val]

\* a _set_sigma_sq that marks the scale trained
SetSigmaSq_marks_trained ==
    /\ op = "idle"
    /\ gp.cls = "BenchmarkGP"
    /\ \E val \in TrainedVals(1) :
        /\ args' = [val |-> val]
        /\ gp' = [gp EXCEPT !.sigma_sq = [val |-> val, trained |-> TRUE]]
    /\ op' = "_set_sigma_sq"
    /\ result' = Completed("none")
    /\ UNCHANGED <<models, sigma_sq>>

\* BenchmarkGP._set_sigma_sq(val) (_test/gp.py, lines 139-151)
SetSigmaSq ==
    /\ op = "idle"
    /\ gp.cls = "BenchmarkGP"
    /\ \E val \in TrainedVals(1) :
        /\ args' = [val |-> val]
        /\ gp' = [gp EXCEPT !.sigma_sq = SigmaSq_set(@, val)]
    /\ op' = "_set_sigma_sq"
    /\ result' = Completed("none")
    /\ UNCHANGED <<models, sigma_sq>>

NextGP ==
    \/ CallSigmaSqOptim
    \/ CallGetOptimParams
    \/ OptimizerSetVal
    \/ SetEps
    \/ SetSigmaSq
    \/ Return

SpecGP == InitGP /\ [][NextGP]_vars

-----------------------------------------------------------------------------
(* Fast regression calls on the multivariate engine.                       *)

\* the neighbourhoods of the training points a caller builds on: the
\* nearest neighbours of each point in TrainX, 2 or 3 of them, and a table
\* with a repeated neighbour, whose kernel matrix is singular
TrainNnTables ==
    { << <<1, 2>>, <<2, 1>>, <<3, 2>> >>,
      << <<1, 2, 3>>, <<2, 1, 3>>, <<3, 2, 1>> >>,
      << <<1, 2>>, <<2, 2>>, <<3, 2>> >> }

\* a coefficient tensor the caller did not get from this engine's build
SuppliedCoeffs(n, nn_count, response_count) ==
    Eager([t \in 1..n |->
            [j \in 1..nn_count |-> [d \in 1..response_count |-> FInt(t + j + d)]]])

\* the coefficient tensors a caller may hold for a table of neighbourhoods
CoeffTensors(ms, in_place, table) ==
    LET built == build_fast_regress_coeffs(ms, in_place, TrainX, table,
                                           Targets(Len(ms)))
    IN  (IF built.err = "none" THEN {built.coeffs} ELSE {})
        \cup {SuppliedCoeffs(Len(table), Len(table[1]), Len(ms))}

\* the batches of a fast regression: each element is a test index, the
\* closest_index the caller gives for it, and the training point whose
\* neighbourhood the caller gives as its row of nn_indices
FastBatches ==
    { <<e>> : e \in (1..Len(TestX)) \X (1..Len(TrainX)) \X (1..Len(TrainX)) }
    \cup { << <<1, 1, 1>>, <<2, 3, 3>> >>, << <<2, 3, 3>>, <<1, 2, 1>> >> }

\* a caller builds the coefficients of the training set, one response
\* dimension per model
CallBuildFastCoeffs ==
    /\ op = "idle"
    /\ \E table \in TrainNnTables, in_place \in BOOLEAN :
        /\ args' = [train |-> TrainX, nn_indices |-> table,
                    targets |-> Targets(Len(models)), in_place |-> in_place]
        /\ result' = build_fast_regress_coeffs(models, in_place, TrainX,
                                               table, Targets(Len(models)))
    /\ op' = "build_fast_regress_coeffs"
    /\ UNCHANGED <<models, sigma_sq, gp>>

\* a caller runs fast_regress_from_indices on a coefficient tensor
CallFastRegressFromIndices ==
    /\ op = "idle"
    /\ \E table \in TrainNnTables, in_place \in BOOLEAN,
          batch \in FastBatches :
        \E coeffs_tensor \in CoeffTensors(models, in_place, table) :
            LET c == [indices |-> [b \in 1..Len(batch) |-> batch[b][1]],
                      nn_indices |->
                          [b \in 1..Len(batch) |-> table[batch[b][3]]],
                      test |-> TestX,
                      train |-> TrainX,
                      closest_index |->
                          [b \in 1..Len(batch) |-> batch[b][2]],
                      coeffs_tensor |-> coeffs_tensor,
                      train_nn_indices |-> table,
                      in_place |-> in_place]
            IN  /\ args' = c
                /\ result' = fast_regress_from_indices(models, in_place, c)
    /\ op' = "fast_regress_from_indices"
    /\ UNCHANGED <<models, sigma_sq, gp>>

NextFast ==
    \/ CallBuildFastCoeffs
    \/ CallFastRegressFromIndices
    \/ Return

SpecFast == Init /\ [][NextFast]_vars

-----------------------------------------------------------------------------
(* The single-model regress on kernel tensors of the caller's own.         *)

\* the kernel matrices a caller may pass for one batch element: a
\* positive-definite one, a singular one and a symmetric indefinite one
KernelMatrices ==
    { << <<FOne, Frac(1, 2)>>, <<Frac(1, 2), FOne>> >>,
      << <<FOne, FOne>>, <<FOne, FOne>> >>,
      << <<FOne, FInt(2)>>, <<FInt(2), FOne>> >> }

\* the tensors K of 1 and of 2 batch elements
KernelTensors ==
    { <<k>> : k \in KernelMatrices }
    \cup { <<k, l>> : k \in KernelMatrices, l \in KernelMatrices }

\* MuyGPS.regress(K, Kcross, batch_targets, variance_mode) of model m, on a
\* tensor K the caller supplies
CallMuyGPSRegressOnK ==
    /\ op = "idle"
    /\ \E m \in 1..Len(models), K \in KernelTensors, rc \in 1..MaxResp,
          variance_mode \in VarianceModes :
        LET Kcross == [b \in 1..Len(K) |-> <<Frac(1, 2), Frac(1, 3)>>]
            batch_targets ==
                [b \in 1..Len(K) |-> [j \in 1..2 |-> Targets(rc)[j]]]
        IN  /\ args' = [m |-> m, K |-> K, Kcross |-> Kcross,
                        batch_targets |-> batch_targets,
                        variance_mode |-> variance_mode]
            /\ result' = MuyGPS_regress(models[m], K, Kcross, batch_targets,
                                        variance_mode)
    /\ op' = "MuyGPS.regress(K)"
    /\ UNCHANGED <<models, sigma_sq, gp>>

NextK ==
    \/ CallMuyGPSRegressOnK
    \/ Return

SpecK == Init /\ [][NextK]_vars

-----------------------------------------------------------------------------
(* Every operation that can follow the construction of an engine: the      *)
(* regressions and the fast regressions of a MultivariateMuyGPS, its       *)
(* sigma^2 estimator, and the resets of a BenchmarkGP.                     *)

InitAll ==
    /\ \E n \in 1..MaxModels :
            models = [i \in 1..n |-> [theta |-> 1, eps |-> FZero]]
    /\ sigma_sq = SigmaSqInit(Len(models))
    /\ op = "idle"
    /\ args = <<>>
    /\ result = <<>>
    /\ gp = BenchmarkGPInit([p \in KernelParams |-> "fixed"], "free")

NextAll ==
    \/ CallRegress
    \/ CallRegressFromIndices
    \/ CallBuildFastCoeffs
    \/ CallFastRegressFromIndices
    \/ TrainSigmaSq
    \/ SetEps
    \/ SetSigmaSq
    \/ Return

SpecAll == InitAll /\ [][NextAll]_vars

-----------------------------------------------------------------------------
(* The queries of a BenchmarkGP, alone and among the other operations.     *)

\* gp.fixed() of a BenchmarkGP
CallFixed ==
    /\ op = "idle"
    /\ gp.cls = "BenchmarkGP"
    /\ op' = "fixed"
    /\ args' = <<>>
    /\ result' = [kind |-> "bool", err |-> "none",
                  val |-> BenchmarkGP_fixed(gp)]
    /\ UNCHANGED <<models, sigma_sq, gp>>

NextQuery ==
    \/ NextGP
    \/ CallFixed

SpecQuery == InitGP /\ [][NextQuery]_vars

NextFrame ==
    \/ NextAll
    \/ CallMuyGPSRegress
    \/ CallGetOptimParams
    \/ CallFixed

SpecFrame == InitAll /\ [][NextFrame]_vars

-----------------------------------------------------------------------------
(* The single-model regress of an engine with a small noise, on kernel     *)
(* matrices of order 3.                                                    *)

\* the noise of the engine: 1e-5, 1e-1, none, 1
NoiseVals == {Frac(1, 100000), Frac(1, 10), FZero, FOne}

Identity3 ==
    << <<FOne, FZero, FZero>>, <<FZero, FOne, FZero>>, <<FZero, FZero, FOne>> >>

\* the kernel of length scale 1 on the pairwise distances of TrainX
TrainKernel ==
    Eager([j \in 1..3 |->
            [l \in 1..3 |-> KernelVal(1, Metric(TrainX[j], TrainX[l]))]])

\* the kernel matrices of a call: with the noise 1e-5 the identity alone,
\* on which the arithmetic stays within TLC's integers
ScenarioKernels(eps) ==
    IF eps = Frac(1, 100000) THEN {Identity3} ELSE {Identity3, TrainKernel}

\* the cross-covariances of a call: those of the scenario, the kernel of
\* length scale 1 on the distances from TestX[1] to TrainX, and a vector
\* no test point can have with neighbours that do not correlate
ScenarioKcross ==
    { <<Frac(1, 2), Frac(3, 10), Frac(1, 10)>>,
      [j \in 1..3 |-> KernelVal(1, Metric(TestX[1], TrainX[j]))],
      <<Frac(9, 10), Frac(9, 10), Frac(9, 10)>> }

ScenarioTargets ==
    { << <<FInt(2)>>, <<FInt(4)>>, <<FInt(6)>> >>,
      << <<FInt(2), FInt(3)>>, <<FInt(4), FInt(5)>>, <<FInt(6), FInt(7)>> >> }

InitScenario ==
    /\ \E eps \in NoiseVals : models = <<[theta |-> 1, eps |-> eps]>>
    /\ sigma_sq = SigmaSqInit(1)
    /\ op = "idle"
    /\ args = <<>>
    /\ result = <<>>
    /\ gp = MuyGPSInit([p \in KernelParams |-> "fixed"], "fixed", 1)

\* MuyGPS.regress on one batch element of three neighbours
CallScenario ==
    /\ op = "idle"
    /\ \E K \in ScenarioKernels(models[1].eps), Kcross \in ScenarioKcross,
          targets \in ScenarioTargets, variance_mode \in VarianceModes :
        /\ args' = [m |-> 1, K |-> <<K>>, Kcross |-> <<Kcross>>,
                    batch_targets |-> <<targets>>,
                    variance_mode |-> variance_mode]
        /\ result' = MuyGPS_regress(models[1], <<K>>, <<Kcross>>, <<targets>>,
                                    variance_mode)
    /\ op' = "MuyGPS.regress(3)"
    /\ UNCHANGED <<models, sigma_sq, gp>>

NextScenario ==
    \/ CallScenario
    \/ Return

SpecScenario == InitScenario /\ [][NextScenario]_vars

-----------------------------------------------------------------------------
(* Several BenchmarkGP engines and the noise objects they refer to.  Here  *)
(* gp is [cls, heap, engines]: heap[o] is the noise object o and           *)
(* engines[e].eps the object engine e refers to.  Object 1 is the          *)
(* HomoscedasticNoise(0.0) of the signature of __init__, which Python      *)
(* evaluates once, when the function is defined.                           *)

InitEngines ==
    /\ models = <<[theta |-> 1, eps |-> FZero]>>
    /\ sigma_sq = SigmaSqInit(1)
    /\ op = "idle"
    /\ args = <<>>
    /\ result = <<>>
    /\ gp = [cls |-> "BenchmarkGPs",
             heap |-> <<Hyper(FZero, "fixed")>>,
             engines |-> <<>>]

\* BenchmarkGP(kernel): self.eps = eps, the object of the default
\* (_test/gp.py, lines 106-125)
ConstructDefault ==
    /\ op = "idle"
    /\ Len(gp.engines) < MaxEngines
    /\ gp' = [gp EXCEPT !.engines = Append(@, [eps |-> 1])]
    /\ args' = [eps |-> "default"]
    /\ op' = "BenchmarkGP"
    /\ result' = Completed("none")
    /\ UNCHANGED <<models, sigma_sq>>

\* BenchmarkGP(kernel, eps): self.eps = eps, an object the caller made for
\* this engine
ConstructWithEps ==
    /\ op = "idle"
    /\ Len(gp.engines) < MaxEngines
    /\ \E v \in HyperVals("eps"), b \in Bounds :
        /\ gp' = [gp EXCEPT !.heap = Append(@, Hyper(v, b)),
                            !.engines = Append(@, [eps |-> Len(gp.heap) + 1])]
        /\ args' = [eps |-> Hyper(v, b)]
    /\ op' = "BenchmarkGP"
    /\ result' = Completed("none")
    /\ UNCHANGED <<models, sigma_sq>>

\* engine e's set_eps(**eps): self.eps._set(**eps) changes the object the
\* engine refers to (_test/gp.py, lines 127-137)
SetEpsOf ==
    /\ op = "idle"
    /\ \E e \in 1..Len(gp.engines), v \in HyperVals("eps"), b \in Bounds :
        /\ args' = [engine |-> e, val |-> v, bounds |-> b]
        /\ gp' = [gp EXCEPT !.heap[gp.engines[e].eps] = Hyper(v, b)]
    /\ op' = "set_eps"
    /\ result' = Completed("none")
    /\ UNCHANGED <<models, sigma_sq>>

NextEngines ==
    \/ ConstructDefault
    \/ ConstructWithEps
    \/ SetEpsOf
    \/ Return

SpecEngines == InitEngines /\ [][NextEngines]_vars

Next ==
    \/ CallMuyGPSRegress
    \/ CallRegress
    \/ CallRegressFromIndices
    \/ TrainSigmaSq
    \/ Return

Spec == Init /\ [][Next]_vars

-----------------------------------------------------------------------------
(* Properties.                                                             *)

\* what the caller sees of a result
Value(r) ==
    [kind |-> r.kind, err |-> r.err, responses |-> r.responses,
     variance |-> r.variance]

\* the arguments _regress gets for the regress call in args
CallArgs ==
    regress_args(models, sigma_sq, args.pairwise_dists, args.crosswise_dists,
                 args.batch_nn_targets, args.variance_mode,
                 args.apply_sigma_sq)

RespCount == Len(args.batch_nn_targets[1][1])

\* the systems of the single-model call in args can all be solved
SingleSolvable ==
    compute_solve(models[args.m].eps, args.K, args.Kcross,
                  args.batch_targets).err = "none"

\* C1: the single-model regress returns the responses alone when
\* variance_mode is None and the pair (responses, diagonal variances) when
\* it is "diagonal" (given systems that can be solved); for any other mode
\* it returns nothing and fails with the unsupported-mode error.
C1_ModeDispatch ==
    op = "MuyGPS.regress" =>
        LET model == models[args.m]
            solve == compute_solve(model.eps, args.K, args.Kcross,
                                   args.batch_targets)
            dv == compute_diagonal_variance(model.eps, args.K, args.Kcross)
        IN  /\ (args.variance_mode = "None" /\ SingleSolvable) =>
                /\ result.kind = "responses"
                /\ result.responses = solve.val
                /\ result.variance = <<>>
            /\ (args.variance_mode = "diagonal" /\ SingleSolvable) =>
                /\ result.kind = "pair"
                /\ result.responses = solve.val
                /\ result.variance = dv.val
            /\ args.variance_mode \notin {"None", "diagonal"} =>
                /\ result.kind = "error"
                /\ result.responses = <<>>
                /\ result.err = "NotImplementedError"

\* C2: in the single-model regress an unrecognized variance_mode raises
\* the unsupported-mode error before any linear solve is attempted, for
\* every input, a singular K included.
C2_EagerModeError ==
    (op = "MuyGPS.regress" /\ args.variance_mode \notin {"None", "diagonal"}) =>
        /\ result.solves = 0
        /\ result.err = "NotImplementedError"

\* C3: the multivariate regress answers an unsupported variance_mode with
\* the error the single-model regress raises for it, before any kernel
\* evaluation or solve of any model.
C3_ModeCheckedFirst ==
    (op \in {"regress", "regress_from_indices"}
        /\ args.variance_mode \notin {"None", "diagonal"}) =>
        /\ result.kind = "error"
        /\ result.err = "NotImplementedError"
        /\ result.kernel_evals = 0
        /\ result.solves = 0

\* an unsupported mode on two models, on tensors for which a later solve
\* (the second model's) would have failed
C3_Witness ==
    /\ op = "regress"
    /\ args.variance_mode = "full"
    /\ result.err = "NotImplementedError"
    /\ Len(models) = 2
    /\ LET a == [CallArgs EXCEPT !.variance_mode = "None"]
           acc == regress_loop(regress_alloc(a), 1, a)
       IN  acc.err = "LinAlgError" /\ acc.done = {1, 2}

\* the kernel tensors of model i for the regress call in args
KOf(i) == Kernel3(models[i].theta, args.pairwise_dists)
KcrossOf(i) == Kernel2(models[i].theta, args.crosswise_dists)

\* column i of a (batch, response_count) matrix
Column(mat, i) == [b \in 1..Len(mat) |-> mat[b][i]]

\* C4: with variance_mode "diagonal", the variance column of model i is the
\* diagonal variance of model i times sigma_sq[i] when the caller passed
\* apply_sigma_sq = true and the scale vector is trained, and times 1 in
\* every other case.
C4_SigmaSqScaling ==
    (op = "regress" /\ args.variance_mode = "diagonal" /\ result.kind = "pair") =>
        \A i \in 1..Len(models) :
            LET dv == compute_diagonal_variance(models[i].eps, KOf(i),
                                                KcrossOf(i)).val
                factor == IF args.apply_sigma_sq /\ sigma_sq.trained
                          THEN sigma_sq.val[i] ELSE FOne
            IN  Column(result.variance, i) = Scale(dv, factor)

\* Each of the four cases is reached with a variance that the scale changes.
C4_Scaled(apply, trained) ==
    /\ op = "regress"
    /\ args.variance_mode = "diagonal"
    /\ result.kind = "pair"
    /\ args.apply_sigma_sq = apply
    /\ sigma_sq.trained = trained
    /\ Len(models) = 2
    /\ \A i \in 1..2 :
        LET dv == compute_diagonal_variance(models[i].eps, KOf(i),
                                            KcrossOf(i)).val
        IN  Scale(dv, sigma_sq.val[i]) # dv

C4_Witness == C4_Scaled(TRUE, TRUE)

C4_WitnessNotApplied == C4_Scaled(FALSE, TRUE)

\* C5: for every response dimension i of the targets, column i of the
\* responses of the multivariate regress is the single-model solve of
\* model i: its kernel on the shared distance tensors, its noise, and
\* column i of the targets.
C5_ColumnIsModelSolve ==
    (op = "regress" /\ result.kind # "error") =>
        \A i \in 1..RespCount :
            /\ i <= Len(models)
            /\ LET single == MuyGPS_regress(models[i], KOf(i), KcrossOf(i),
                                            TargetSlice(args.batch_nn_targets, i),
                                            "None")
               IN  /\ single.kind = "responses"
                   /\ Column(result.responses, i) = Flatten(single.responses)

\* C6: a multivariate engine used with targets whose response count is not
\* its number of models fails with a configuration error, and never
\* returns a matrix with columns no model computed.
C6_ArityChecked ==
    (op = "regress" /\ Len(models) # RespCount) =>
        /\ result.kind = "error"
        /\ result.err = "ConfigurationError"

\* the permutations of 1..n
Perms(n) == { p \in [1..n -> 1..n] : \A i, j \in 1..n : p[i] = p[j] => i = j }

\* s reordered by p: position j takes what was at p[j]
Reorder(s, p) == [j \in 1..Len(s) |-> s[p[j]]]

\* the columns of a (batch, response_count) matrix reordered by p
ReorderColumns(mat, p) == [b \in 1..Len(mat) |-> Reorder(mat[b], p)]

\* the response columns of a (batch, nn_count, response_count) tensor
\* reordered by p
ReorderTargets(t, p) == [b \in 1..Len(t) |-> ReorderColumns(t[b], p)]

\* a returned value with the columns of its outputs reordered by p
ReorderValue(v, p) ==
    [v EXCEPT !.responses = IF v.kind = "error" THEN @
                            ELSE ReorderColumns(@, p),
              !.variance = IF v.kind = "pair" THEN ReorderColumns(@, p)
                           ELSE @]

\* C7 as stated: regress with the models and the columns of
\* batch_nn_targets reordered by a permutation p (and nothing else) gives
\* the original output with its columns reordered by p.
C7_ReorderModelsAndTargets ==
    (op = "regress" /\ Len(models) = RespCount) =>
        \A p \in Perms(Len(models)) :
            Value(regress(Reorder(models, p), sigma_sq, args.pairwise_dists,
                          args.crosswise_dists,
                          ReorderTargets(args.batch_nn_targets, p),
                          args.variance_mode, args.apply_sigma_sq))
                = ReorderValue(Value(result), p)

\* C7, amended: regress with the models, the entries of the scale vector
\* sigma_sq and the columns of batch_nn_targets all reordered by a
\* permutation p gives the original output (responses, variances or error)
\* with its columns reordered by p.
C7_ReorderDimensions ==
    (op = "regress" /\ Len(models) = RespCount) =>
        \A p \in Perms(Len(models)) :
            Value(regress(Reorder(models, p),
                          [sigma_sq EXCEPT !.val = Reorder(@, p)],
                          args.pairwise_dists, args.crosswise_dists,
                          ReorderTargets(args.batch_nn_targets, p),
                          args.variance_mode, args.apply_sigma_sq))
                = ReorderValue(Value(result), p)

\* two different models with scaled variances: the swap changes the order
\* of the columns of both outputs
C7_Witness ==
    /\ op = "regress"
    /\ Len(models) = 2
    /\ RespCount = 2
    /\ models[1] # models[2]
    /\ result.kind = "pair"
    /\ args.apply_sigma_sq
    /\ sigma_sq.trained
    /\ ReorderColumns(result.responses, <<2, 1>>) # result.responses
    /\ ReorderColumns(result.variance, <<2, 1>>) # result.variance

\* C8: the iterations of the loop of the multivariate regress can run in
\* any order with the same final result: iteration i assigns column i of
\* the outputs and no other, every column of a returned matrix was
\* assigned exactly once, and the value returned (or the error raised) is
\* the one the loop in the code's order gives.
C8_OrderImmaterial ==
    /\ op \in {"_regress", "regress_done"} =>
        \A c \in 1..Len(result.writes) : result.writes[c] \subseteq {c}
    /\ op = "regress_done" =>
        /\ result.kind # "error" =>
            \A c \in 1..Len(result.writes) : result.writes[c] = {c}
        /\ Value(result) = Value(regress_impl(args))

\* the tensors the tensor-construction collaborator builds from the
\* arguments of the regress_from_indices call in args, and what regress
\* returns on them
BuiltTensors ==
    tensor_fn(args.mpi_mode, args.indices_by_rank, args.indices,
              args.nn_indices, args.test, args.train, args.targets)

RegressOnBuilt ==
    LET t == BuiltTensors
    IN  regress(models, sigma_sq, t.pairwise_dists, t.crosswise_dists,
                t.batch_nn_targets, args.variance_mode, args.apply_sigma_sq)

\* C9: regress_from_indices returns the responses (and variances), or
\* raises the error, of regress called with the same variance_mode and
\* apply_sigma_sq on the tensors the tensor-construction collaborator
\* builds from the same inputs.
C9_FromIndicesIsRegress ==
    op = "regress_from_indices" =>
        LET r == RegressOnBuilt
        IN  /\ result.err = r.err
            /\ result.responses = r.responses
            /\ result.variance = r.variance

\* a call whose variances depend on apply_sigma_sq being handed on
C9_Witness ==
    /\ op = "regress_from_indices"
    /\ result.kind \in {"pair", "quad"}
    /\ sigma_sq.trained
    /\ ~args.apply_sigma_sq
    /\ Len(models) = 2
    /\ result.variance #
        regress(models, sigma_sq, BuiltTensors.pairwise_dists,
                BuiltTensors.crosswise_dists, BuiltTensors.batch_nn_targets,
                args.variance_mode, TRUE).variance

\* C10: regress_from_indices returns what regress returns when
\* return_distances is false, (responses, crosswise_dists, pairwise_dists)
\* when it is true and variance_mode is None, and (responses, variances,
\* crosswise_dists, pairwise_dists) when it is true and variance_mode is
\* "diagonal"; the distance tensors are returned in no other case.
C10_ReturnShape ==
    (op = "regress_from_indices" /\ result.kind # "error") =>
        LET r == RegressOnBuilt
            t == BuiltTensors
        IN  /\ ~args.return_distances => result = r
            /\ args.return_distances =>
                /\ result.kind = IF args.variance_mode = "None"
                                 THEN "triple" ELSE "quad"
                /\ result.responses = r.responses
                /\ result.variance = r.variance
                /\ (args.variance_mode = "None") = (result.variance = <<>>)
                /\ result.crosswise_dists = t.crosswise_dists
                /\ result.pairwise_dists = t.pairwise_dists
            /\ (result.crosswise_dists # <<>>) = args.return_distances
            /\ (result.pairwise_dists # <<>>) = args.return_distances

C10_Witness ==
    /\ op = "regress_from_indices"
    /\ args.return_distances
    /\ args.variance_mode = "diagonal"
    /\ result.kind = "quad"
    /\ Len(result.pairwise_dists[1]) = 3

C10_WitnessTriple ==
    /\ op = "regress_from_indices"
    /\ args.return_distances
    /\ args.variance_mode = "None"
    /\ result.kind = "triple"

\* column d of targets gathered at the neighbours of batch element j
GatheredTargets(j, d) ==
    [l \in 1..Len(args.nn_indices[j]) |->
        args.targets[args.nn_indices[j][l]][d]]

\* the scale of response dimension d by the closed form: the sum over the
\* neighbourhoods j of y_j^T solve(K_j + eps I, y_j), over nn_count times
\* batch_count
ClosedFormScale(d) ==
    LET batch_count == Len(args.nn_indices)
        nn_count == Len(args.nn_indices[1])
    IN  FDiv(FSum([j \in 1..batch_count |->
                    Dot(GatheredTargets(j, d),
                        LinalgSolve(Perturb(args.K[j], gp.eps.val),
                                    GatheredTargets(j, d)))]),
             FInt(nn_count * batch_count))

\* C11: when sigma_sq_optim completes, the scale parameter of every
\* response dimension d of targets holds the sum over the neighbourhoods j
\* of y_j^T solve(K_j + eps I, y_j) divided by nn_count * batch_count,
\* y_j being column d of targets at nn_indices[j].
C11_SigmaSqEstimate ==
    (op = "sigma_sq_optim" /\ result.err = "none") =>
        \A d \in 1..Len(args.targets[1]) :
            /\ d <= Len(gp.sigma_sq)
            /\ gp.sigma_sq[d].val = ClosedFormScale(d)

\* two response dimensions estimated over two neighbourhoods
C11_Witness ==
    /\ op = "sigma_sq_optim"
    /\ result.err = "none"
    /\ Len(args.nn_indices) = 2
    /\ Len(args.targets[1]) = 2
    /\ gp.sigma_sq[1].val # FOne
    /\ gp.sigma_sq[2].val # gp.sigma_sq[1].val

\* C13: sigma_sq_optim called again on the same engine with the same K,
\* nn_indices and targets (and the same eps) ends as the first call ended
\* and leaves every scale parameter with the value the first call left.
C13_SigmaSqIdempotent ==
    op = "sigma_sq_optim" =>
        LET again == sigma_sq_optim(gp, args.K, args.nn_indices, args.targets)
        IN  /\ again.gp.sigma_sq = gp.sigma_sq
            /\ again.err = result.err

\* a first call that left scales other than the initial ones, which the
\* second call finds stored
C13_Witness ==
    /\ op = "sigma_sq_optim"
    /\ result.err = "none"
    /\ Len(gp.sigma_sq) = 2
    /\ Len(args.targets[1]) = 2
    /\ \A d \in 1..2 : gp.sigma_sq[d].val # FOne

\* C14: whatever sets of hyperparameters came before the query, the
\* mapping get_optim_params returns holds no hyperparameter that is fixed.
C14_NoFixedInOptimParams ==
    op = "get_optim_params" =>
        \A p \in DOMAIN result.params : result.params[p].bounds # "fixed"

\* a query of an engine with a fixed hyperparameter, after the two others
\* were given new values
C14_Witness ==
    /\ op = "get_optim_params"
    /\ gp.hyperparameters["nu"].bounds = "fixed"
    /\ gp.hyperparameters["length_scale"].val = 2
    /\ gp.eps.val = FOne
    /\ DOMAIN result.params = {"length_scale", "eps"}

\* C15: get_optim_params returns exactly the kernel's hyperparameters that
\* are not fixed, and eps under the key "eps" if and only if eps is not
\* fixed; sigma_sq is never in it.
C15_OptimParamsExact ==
    op = "get_optim_params" =>
        /\ DOMAIN result.params \cap KernelParams =
                { p \in KernelParams : gp.hyperparameters[p].bounds # "fixed" }
        /\ \A p \in DOMAIN result.params \cap KernelParams :
                result.params[p] = gp.hyperparameters[p]
        /\ ("eps" \in DOMAIN result.params) = (gp.eps.bounds # "fixed")
        /\ "eps" \in DOMAIN result.params => result.params["eps"] = gp.eps
        /\ DOMAIN result.params \subseteq KernelParams \cup {"eps"}

\* a query of a BenchmarkGP whose sigma_sq was set, with eps and one
\* hyperparameter of the kernel to optimize
C15_Witness ==
    /\ op = "get_optim_params"
    /\ gp.cls = "BenchmarkGP"
    /\ gp.sigma_sq.val # SigmaSqInit(1).val
    /\ DOMAIN result.params = {"nu", "eps"}

\* a query of a MuyGPS whose scale parameters were estimated
C15_WitnessMuyGPS ==
    /\ op = "get_optim_params"
    /\ gp.cls = "MuyGPS"
    /\ gp.sigma_sq[1].val # FOne
    /\ DOMAIN result.params = {"length_scale"}

\* the explicit resets of a hyperparameter: set_eps and _set_sigma_sq
Resets == {"set_eps", "_set_sigma_sq"}

\* the fixed hyperparameters of the kernel and a fixed eps keep their value
\* in the step
FixedKernelAndEpsKept ==
    /\ \A p \in KernelParams :
            fixed(gp.hyperparameters[p]) =>
                gp'.hyperparameters[p].val = gp.hyperparameters[p].val
    /\ fixed(gp.eps) => gp'.eps.val = gp.eps.val

\* the scale parameters of a MuyGPS, which have "fixed" bounds, keep their
\* value in the step
FixedScaleKept ==
    gp.cls = "MuyGPS" =>
        \A i \in DOMAIN gp.sigma_sq :
            fixed(gp.sigma_sq[i]) => gp'.sigma_sq[i].val = gp.sigma_sq[i].val

\* C16: a hyperparameter marked fixed keeps its value in every step other
\* than an explicit reset, the scale parameters of the engine included.
C16_FixedNeverChanges ==
    [][op' \notin Resets => FixedKernelAndEpsKept /\ FixedScaleKept]_vars

\* C16, amended: a hyperparameter marked fixed keeps its value in every
\* step other than an explicit reset, except that the sigma-squared
\* estimator overwrites the scale parameters, whose bounds stay "fixed".
C16_FixedChangedByEstimatorOnly ==
    [][op' \notin Resets =>
          /\ FixedKernelAndEpsKept
          /\ op' # "sigma_sq_optim" => FixedScaleKept
          /\ gp.cls = "MuyGPS" =>
                \A i \in DOMAIN gp.sigma_sq : fixed(gp'.sigma_sq[i])]_vars

\* the estimator has run on an engine with a fixed eps and a fixed
\* hyperparameter of the kernel, and the fixed scale has a new value
C16_Witness ==
    /\ op = "sigma_sq_optim"
    /\ result.err = "none"
    /\ fixed(gp.eps)
    /\ fixed(gp.hyperparameters["nu"])
    /\ ~fixed(gp.hyperparameters["length_scale"])
    /\ fixed(gp.sigma_sq[1])
    /\ gp.sigma_sq[1].val # FOne

\* the solution of model i's system for the neighbourhood of training
\* point t: (K_i(t) + eps_i * I) x = the targets of the neighbourhood in
\* dimension i
NeighbourhoodSolve(nn_indices, targets, t, i) ==
    LET f == make_fast_regress_tensors(nn_indices, TrainX, targets)
        K == Kernel2(models[i].theta, f.pairwise_dists_fast[t])
    IN  LinalgSolve(Perturb(K, models[i].eps),
                    TargetCol(f.train_nn_targets_fast[t], i))

\* C18: in the tensor build_fast_regress_coeffs returns, the block
\* [t, :, i] is the solution of model i's system for the neighbourhood of
\* training point t, and no block is left at the zeros it was allocated
\* with.
C18_CoeffsAreSolves ==
    (op = "build_fast_regress_coeffs" /\ result.err = "none") =>
        \A t \in 1..Len(args.nn_indices), i \in 1..Len(models) :
            LET x == NeighbourhoodSolve(args.nn_indices, args.targets, t, i)
            IN  /\ \A j \in 1..Len(x) : result.coeffs[t][j][i] = x[j]
                /\ \E j \in 1..Len(x) : result.coeffs[t][j][i] # FZero

\* C17: fast_regress_from_indices returns, for every batch element b and
\* response dimension d, the product of the kernel of model d on b's
\* crosswise distances with column d of coeffs_tensor[closest_index[b]],
\* without any solve and without an error, whatever closest_index is.
C17_FastRegressIsDot ==
    op = "fast_regress_from_indices" =>
        LET crosswise_dists == crosswise_distances(args.test, args.train,
                                   args.indices, args.nn_indices)
        IN  /\ result.err = "none"
            /\ result.solves = 0
            /\ Len(result.responses) = Len(args.indices)
            /\ \A b \in 1..Len(args.indices) :
                /\ Len(result.responses[b]) = Len(models)
                /\ \A d \in 1..Len(models) :
                    result.responses[b][d] =
                        Dot(Kernel2(models[d].theta, crosswise_dists)[b],
                            TargetCol(
                                args.coeffs_tensor[args.closest_index[b]], d))

\* the coefficients of the call are the ones this engine's build returns,
\* and every batch element's neighbourhood is that of its closest_index
FastConsistent ==
    /\ op = "fast_regress_from_indices"
    /\ LET built == build_fast_regress_coeffs(models, args.in_place,
                        args.train, args.train_nn_indices,
                        Targets(Len(models)))
       IN  built.err = "none" /\ built.coeffs = args.coeffs_tensor
    /\ \A b \in 1..Len(args.indices) :
            args.nn_indices[b] = args.train_nn_indices[args.closest_index[b]]

\* C19: when every test point's neighbourhood is the neighbourhood of its
\* closest training point, fast regression on the coefficients
\* build_fast_regress_coeffs returned gives the responses of the full
\* regress on that neighbourhood.
C19_FastIsFull ==
    FastConsistent =>
        LET t == make_regress_tensors(args.indices, args.nn_indices,
                     args.test, args.train, Targets(Len(models)))
            full == regress(models, sigma_sq, t.pairwise_dists,
                            t.crosswise_dists, t.batch_nn_targets,
                            "None", FALSE)
        IN  /\ full.err = "none"
            /\ result.responses = full.responses

\* elimination without row exchanges from column c on finds only positive
\* pivots
RECURSIVE PivotsPositive(_, _)
PivotsPositive(M, c) ==
    IF c > Len(M) THEN TRUE
    ELSE IF M[c][c][1] <= 0 THEN FALSE
    ELSE PivotsPositive(
            Eager([r \in 1..Len(M) |->
                    IF r <= c THEN M[r]
                    ELSE RowSub(M[r], M[c], FDiv(M[r][c], M[c][c]))]),
            c + 1)

\* a symmetric matrix is positive-definite when elimination without row
\* exchanges finds only positive pivots (its leading principal minors
\* are their products)
PositiveDefinite(M) == PivotsPositive(M, 1)

\* the system of batch element b of the call: K[b] + eps * I
SystemOf(b) == Perturb(args.K[b], models[args.m].eps)

\* C20: when the system of any one batch element is singular or not
\* positive-definite, the regress call raises the linear-algebra error at
\* its first solve and returns no response and no variance.
C20_FailsUnlessPositiveDefinite ==
    (/\ op = "MuyGPS.regress(K)"
     /\ \E b \in 1..Len(args.K) :
            Singular(SystemOf(b)) \/ ~PositiveDefinite(SystemOf(b))) =>
        /\ result.err = "LinAlgError"
        /\ result.responses = <<>>
        /\ result.variance = <<>>
        /\ result.solves = 1

\* the scale of the BenchmarkGP is trained
BenchmarkTrained(g) == g.cls = "BenchmarkGP" /\ g.sigma_sq.trained

OtherKcross == <<Frac(1, 3), Frac(1, 4)>>
OtherTargets(rc) == [j \in 1..2 |-> [r \in 1..rc |-> FInt(5 * j + r)]]

\* x with every element but the one at b replaced by y
Elsewhere(x, b, y) == [c \in 1..Len(x) |-> IF c = b THEN x[c] ELSE y]

\* the values at index b of two results are the same
SameAt(r1, b1, r2, b2) ==
    /\ r1.responses[b1] = r2.responses[b2]
    /\ r1.kind = "pair" => r1.variance[b1] = r2.variance[b2]

\* C21: the response and the diagonal variance of batch element b depend
\* on K[b], Kcross[b], batch_targets[b] and eps alone: a second call that
\* agrees with the first on element b and differs on the others, or has no
\* other element, and has no singular system, returns the same values
\* for it.
C21_NoCrossBatchCoupling ==
    (op = "MuyGPS.regress(K)" /\ result.err = "none") =>
        \A b \in 1..Len(args.K) :
            /\ \A k \in KernelMatrices :
                LET rc == Len(args.batch_targets[1][1])
                    second == MuyGPS_regress(models[args.m],
                                  Elsewhere(args.K, b, k),
                                  Elsewhere(args.Kcross, b, OtherKcross),
                                  Elsewhere(args.batch_targets, b,
                                            OtherTargets(rc)),
                                  args.variance_mode)
                IN  second.err = "none" => SameAt(result, b, second, b)
            /\ SameAt(result, b,
                      MuyGPS_regress(models[args.m], <<args.K[b]>>,
                                     <<args.Kcross[b]>>,
                                     <<args.batch_targets[b]>>,
                                     args.variance_mode), 1)

\* a call on two different systems that returned responses and variances
C21_Witness ==
    /\ op = "MuyGPS.regress(K)"
    /\ result.kind = "pair"
    /\ Len(args.K) = 2
    /\ args.K[1] # args.K[2]
    /\ Len(args.batch_targets[1][1]) = 2

\* the kernel hyperparameters and the noise of both engines are unchanged
\* in the step
HypersKept ==
    /\ models' = models
    /\ gp'.hyperparameters = gp.hyperparameters
    /\ gp'.eps = gp.eps

\* the scale parameters of both engines are unchanged in the step
ScaleKept == sigma_sq' = sigma_sq /\ gp'.sigma_sq = gp.sigma_sq

\* the operations the frame condition names
ReadOnlyOps ==
    {"MuyGPS.regress", "regress", "regress_from_indices",
     "build_fast_regress_coeffs", "fast_regress_from_indices",
     "get_optim_params", "fixed"}

\* C22: no operation writes the kernel hyperparameters or the noise, and
\* the scale parameter is written by the sigma^2 estimator alone.
C22_OnlyEstimatorWrites ==
    [][HypersKept /\ (ScaleKept \/ TrainSigmaSq)]_vars

\* C22, amended: apart from the explicit resets (set_eps writes the noise,
\* _set_sigma_sq writes the scale), no operation writes the kernel
\* hyperparameters or the noise, and the scale is written by the sigma^2
\* estimator alone; the regressions, the fast regressions, the coefficient
\* build, get_optim_params and fixed leave the whole engine state as it
\* was, so that nothing of a call is kept for the next.
C22_FrameExceptResets ==
    [][/\ op' \notin Resets => HypersKept /\ (ScaleKept \/ TrainSigmaSq)
       /\ op' = "set_eps" =>
            /\ models' = models
            /\ gp'.hyperparameters = gp.hyperparameters
            /\ ScaleKept
       /\ op' = "_set_sigma_sq" => HypersKept /\ sigma_sq' = sigma_sq
       /\ (op' \in ReadOnlyOps \/ op \in ReadOnlyOps) =>
            <<models, sigma_sq, gp>>' = <<models, sigma_sq, gp>>]_vars

\* a fast regression on an engine whose scale the estimator has written,
\* beside a BenchmarkGP whose eps and scale were reset
C22_Witness ==
    /\ op = "fast_regress_from_indices"
    /\ sigma_sq.trained
    /\ gp.eps # BenchmarkGPInit([p \in KernelParams |-> "fixed"], "free").eps
    /\ gp.sigma_sq.val # SigmaSqInit(1).val

\* x < y and x <= y for two rationals
FLess(x, y) == x[1] * y[2] < y[1] * x[2]
FLeq(x, y) == x[1] * y[2] <= y[1] * x[2]

\* |x - y| < 1e-4
Near(x, y) ==
    LET d == FSub(x, y)
    IN  FLess(<<Abs(d[1]), d[2]>>, Frac(1, 10000))

\* the call of the end-to-end scenario: noise 1e-5, K the identity of
\* order 3, Kcross = [0.5, 0.3, 0.1], targets = [[2], [4], [6]], "diagonal"
ScenarioCall ==
    /\ op = "MuyGPS.regress(3)"
    /\ models[1].eps = Frac(1, 100000)
    /\ args.K = <<Identity3>>
    /\ args.Kcross = << <<Frac(1, 2), Frac(3, 10), Frac(1, 10)>> >>
    /\ args.batch_targets = << << <<FInt(2)>>, <<FInt(4)>>, <<FInt(6)>> >> >>
    /\ args.variance_mode = "diagonal"

\* C23: the scenario returns the response 2.8 / (1 + 1e-5), about 2.8, and
\* the variance 1 - 0.35 / (1 + 1e-5), about 0.65.
C23_EndToEnd ==
    ScenarioCall =>
        LET noisy == FAdd(FOne, Frac(1, 100000))
        IN  /\ result.kind = "pair"
            /\ result.responses = << <<FDiv(Frac(28, 10), noisy)>> >>
            /\ result.variance = <<FSub(FOne, FDiv(Frac(35, 100), noisy))>>
            /\ Near(result.responses[1][1], Frac(28, 10))
            /\ Near(result.variance[1], Frac(65, 100))

\* the scenario was run and returned
C23_Witness == ScenarioCall /\ result.err = "none"

\* K[b] is a correlation matrix (1 on its diagonal), the noise is not
\* negative and K[b] + noise * I is positive definite
CorrelationStyle(b) ==
    /\ \A j \in 1..Len(args.K[b]) : args.K[b][j][j] = FOne
    /\ FLeq(FZero, models[args.m].eps)
    /\ PositiveDefinite(Perturb(args.K[b], models[args.m].eps))

\* the correlation matrix of the test point and its neighbours:
\* [[1, Kcross], [Kcross^T, K]]
Joint(K, Kcross) ==
    Eager([r \in 1..(Len(K) + 1) |->
            [c \in 1..(Len(K) + 1) |->
                IF r = 1 /\ c = 1 THEN FOne
                ELSE IF r = 1 THEN Kcross[c - 1]
                ELSE IF c = 1 THEN Kcross[r - 1]
                ELSE K[r - 1][c - 1]]])

\* the diagonal variance of batch element b is in [0, 1]
VarianceInRange(b) ==
    /\ FLeq(FZero, result.variance[b])
    /\ FLeq(result.variance[b], FOne)

\* C24: for a correlation-style kernel, noise >= 0 and K + noise * I
\* positive definite, every diagonal variance is in [0, 1].
C24_VarianceBound ==
    (op = "MuyGPS.regress(3)" /\ result.kind = "pair") =>
        \A b \in 1..Len(args.K) : CorrelationStyle(b) => VarianceInRange(b)

\* C24, amended: when moreover the correlation matrix of the test point
\* together with its neighbours, [[1, Kcross], [Kcross^T, K]], is positive
\* definite, every diagonal variance is in [0, 1].
C24_VarianceBoundJoint ==
    (op = "MuyGPS.regress(3)" /\ result.kind = "pair") =>
        \A b \in 1..Len(args.K) :
            (CorrelationStyle(b)
             /\ PositiveDefinite(Joint(args.K[b], args.Kcross[b]))) =>
                VarianceInRange(b)

\* a variance inside (0, 1) for the kernel on TrainX and on the distances
\* from a test point to it, with the noise 1e-1
C24_Witness ==
    /\ op = "MuyGPS.regress(3)"
    /\ result.kind = "pair"
    /\ models[1].eps = Frac(1, 10)
    /\ args.K = <<TrainKernel>>
    /\ CorrelationStyle(1)
    /\ PositiveDefinite(Joint(args.K[1], args.Kcross[1]))
    /\ FLess(FZero, result.variance[1])
    /\ FLess(result.variance[1], FOne)

\* the eps engine e observes in a collection g of engines
EpsOf(g, e) == g.heap[g.engines[e].eps]

\* C25: set_eps on one engine leaves the eps every other engine observes
\* as it was, also when the engines were constructed with the default eps.
C25_EpsOwned ==
    [][op' = "set_eps" =>
          \A e \in 1..Len(gp.engines) :
              e # args'.engine => EpsOf(gp', e) = EpsOf(gp, e)]_vars

\* C26: a call of sigma_sq_optim that fails has modified no scale parameter
\* of the engine.
C26_EstimatorAllOrNothing ==
    [][(op' = "sigma_sq_optim" /\ result'.err # "none")
          => gp'.sigma_sq = gp.sigma_sq]_vars

\* C27: in every state of a BenchmarkGP engine, after any updates of its
\* hyperparameters, eps and sigma_sq, fixed() is True exactly when
\* get_optim_params() is the empty mapping, and a call of fixed() returns
\* that value.
C27_FixedIffNoOptimParams ==
    /\ gp.cls = "BenchmarkGP" =>
          (BenchmarkGP_fixed(gp) <=>
              DOMAIN BenchmarkGP_get_optim_params(gp) = {})
    /\ op = "fixed" =>
          (result.val <=> DOMAIN get_optim_params(gp) = {})

\* fixed() returned True on an engine whose eps was reset and whose scale
\* was set
C27_Witness ==
    /\ op = "fixed"
    /\ result.val
    /\ gp.eps.val = FOne
    /\ gp.sigma_sq.val # BenchmarkGPInit([p \in KernelParams |-> "fixed"],
                                         "fixed").sigma_sq.val

====
